---- MODULE Spec2Model ----
(***************************************************************************)
(* Model of the location-sharing server in src/app.js: the registry        *)
(* connectedUsers, the bus designation busUser, and the five socket.io     *)
(* handlers (connection, send-location, set-as-bus, remove-bus,            *)
(* disconnect).  Every handler runs to completion (single-threaded event   *)
(* loop), so each one is a single action.  The second part models the      *)
(* browser page of src/unnamed/part_000: its role, own-location marker and *)
(* geolocation tracking, driven by the events it listens for.              *)
(***************************************************************************)
EXTENDS Integers, Sequences, FiniteSets, TLC

\* Number of sockets that ever connect (socket ids are fresh: 1, 2, ...).
MaxConn == 3

\* JavaScript null in an object position (busUser, location).
null == [null |-> TRUE]
\* JavaScript null in an id position (busUserId: null).
NoId == 0

\* Payloads a client may send with 'send-location'; the last one lacks a
\* coordinate.
Payloads ==
  { [latitude |-> 1, longitude |-> 1], [latitude |-> 2, longitude |-> 1],
    [latitude |-> 1] }

\* Most calls of startLocationTracking, and most own-location markers the
\* page creates, in one run.
MaxTracking == 2
MaxMarkers == 3

\* Positions the browser's geolocation may report.
Positions == { [lat |-> 1, lon |-> 1], [lat |-> 2, lon |-> 1] }

\* userMarker = null / watchId = null (a marker or a watch is a number here).
NoMarker == 0
NoWatch == 0

VARIABLES
  sockets,         \* ids of the sockets currently connected to the io server
  nextId,          \* the id the next connecting socket gets
  connectedUsers,  \* app.js:18  Map id -> {id, isBus, location}
  busUser,         \* app.js:19  null or a copy {id, isBus, location}
  out,             \* the emits of the handler that ran last, in order
  last,            \* the event that handler handled: [op, id]
  scen             \* how far the run so far follows Scenario (Off: it left it)

\* The state of one browser page (part_000).
VARIABLES
  currentUserRole,  \* part_000:50  'user' or 'bus'
  currentLocation,  \* part_000:51  null or {lat, lon}
  userMarker,       \* part_000:44  the page's own-location marker
  watchId,          \* part_000:54  the id watchPosition returned
  isInitialized,    \* part_000:55
  geolocation,      \* whether navigator.geolocation exists (it does in a
                    \* browser that can show the page's map)
  pendingPosition,  \* getCurrentPosition requests not yet answered
  layers,           \* the own-location markers that are on the map
  markersMade,      \* own-location markers created so far
  watchesMade,      \* watchPosition calls made so far
  trackingCalls     \* startLocationTracking calls made so far

serverVars == <<sockets, nextId, connectedUsers, busUser, out, last, scen>>

pageVars ==
  <<currentUserRole, currentLocation, userMarker, watchId, isInitialized,
    geolocation, pendingPosition, layers, markersMade, watchesMade,
    trackingCalls>>

vars == <<serverVars, pageVars>>

Ids == 1..MaxConn

\* One emit: event name, the set of sockets it is delivered to, the payload.
Emit(to, ev, data) == [ev |-> ev, to |-> to, data |-> data]

\* Array.from(connectedUsers.values()): the entries in insertion order.  Ids
\* are handed out in increasing order and Map.set on an existing key keeps
\* its position, so insertion order is id order.
RECURSIVE ValuesFrom(_, _)
ValuesFrom(m, i) ==
  IF i > MaxConn THEN <<>>
  ELSE IF i \in DOMAIN m THEN <<m[i]>> \o ValuesFrom(m, i + 1)
       ELSE ValuesFrom(m, i + 1)

Values(m) == ValuesFrom(m, 1)

\* The three-client scenario of the specification.
Scenario ==
  << [op |-> "connection", id |-> 1],
     [op |-> "connection", id |-> 2],
     [op |-> "connection", id |-> 3],
     [op |-> "set-as-bus", id |-> 1],
     [op |-> "set-as-bus", id |-> 2],
     [op |-> "disconnect", id |-> 2] >>

\* The value of scen once the run has left the scenario.
Off == Len(Scenario) + 1

Follow(ev) ==
  IF scen < Len(Scenario) /\ Scenario[scen + 1] = ev
  THEN scen + 1
  ELSE Off

\* part_000:44-55  the page's variables when the script has run.
PageLoaded ==
  /\ currentUserRole = "user"
  /\ currentLocation = null
  /\ userMarker = NoMarker
  /\ watchId = NoWatch
  /\ isInitialized = FALSE
  /\ pendingPosition = 0
  /\ layers = {}
  /\ markersMade = 0
  /\ watchesMade = 0
  /\ trackingCalls = 0

Init ==
  /\ sockets = {}
  /\ nextId = 1
  /\ connectedUsers = << >>
  /\ busUser = null
  /\ out = << >>
  /\ last = [op |-> "init", id |-> NoId]
  /\ scen = 0
  /\ PageLoaded
  /\ geolocation = TRUE

\* The users-list payload built at app.js:29-32 from the registry m and the
\* designation bu.
Snapshot(m, bu) == [users |-> Values(m), currentBus |-> bu]

\* connectedUsers.set(socket.id, {id, isBus: false, location: null})
RegisterAsBusIfNone(m, s) ==
  [i \in DOMAIN m \cup {s} |->
     IF i = s THEN [id |-> s, isBus |-> (busUser = null), location |-> null]
     ELSE m[i]]

Register(m, s) ==
  [i \in DOMAIN m \cup {s} |->
     IF i = s THEN [id |-> s, isBus |-> FALSE, location |-> null] ELSE m[i]]

\* io.on('connection'): register the socket, then send it the users-list.
ConnectionStale(s) ==
  /\ s = nextId
  /\ s <= MaxConn
  /\ nextId' = nextId + 1
  /\ sockets' = sockets \cup {s}
  /\ out' = << Emit({s}, "users-list", Snapshot(connectedUsers, busUser)) >>
  /\ connectedUsers' = Register(connectedUsers, s)
  /\ busUser' = busUser
  /\ last' = [op |-> "connection", id |-> s]
  /\ scen' = Follow(last')
  /\ UNCHANGED pageVars

Connection(s) ==
  /\ s = nextId
  /\ s <= MaxConn
  /\ nextId' = nextId + 1
  /\ sockets' = sockets \cup {s}
  /\ connectedUsers' = Register(connectedUsers, s)
  /\ out' = << Emit({s}, "users-list", Snapshot(connectedUsers', busUser)) >>
  /\ busUser' = busUser
  /\ last' = [op |-> "connection", id |-> s]
  /\ scen' = Follow(last')
  /\ UNCHANGED pageVars

\* app.js:35-39  if (user) { user.location = data; ... }
StoreLocationFreshEntry(m, s, data) ==
  IF s \in DOMAIN m
  THEN [m EXCEPT ![s] = [id |-> s, isBus |-> FALSE, location |-> data]]
  ELSE m

StoreLocation(m, s, data) ==
  IF s \in DOMAIN m THEN [m EXCEPT ![s].location = data] ELSE m

\* app.js:40-44  {id: socket.id, isBus: user?.isBus || false, ...data} for the
\* registry m after the store (the spread of data comes last).
LocationEventNoRole(m, s, data) == data @@ [id |-> s, isBus |-> FALSE]

LocationEvent(m, s, data) ==
  data @@ [id |-> s, isBus |-> IF s \in DOMAIN m THEN m[s].isBus ELSE FALSE]

\* The body of socket.on('send-location'): store the payload if the sender is
\* registered, then io.emit 'receive-location' (io.emit reaches every
\* connected socket).
SendLocationHandler(s, data) ==
  /\ connectedUsers' = StoreLocation(connectedUsers, s, data)
  /\ out' = << Emit(sockets, "receive-location",
                    LocationEvent(connectedUsers', s, data)) >>
  /\ last' = [op |-> "send-location", id |-> s]
  /\ UNCHANGED <<sockets, nextId, busUser, scen>>
  /\ UNCHANGED pageVars

\* socket.on('send-location') of a connected socket
SendLocation(s, data) ==
  /\ s \in sockets
  /\ SendLocationHandler(s, data)

\* app.js:48  if (busUser && connectedUsers.has(busUser.id))
HasPrevBus == busUser # null /\ busUser.id \in DOMAIN connectedUsers

\* app.js:49-51  prevBus.isBus = false
DemotePrevBusSkip(m) == m

DemotePrevBus(m) ==
  IF HasPrevBus THEN [m EXCEPT ![busUser.id].isBus = FALSE] ELSE m

\* app.js:52  io.to(busUser.id).emit('bus-status-changed', {isBus: false})
PrevBusNoticeNone == << >>

PrevBusNoticeToAll ==
  IF HasPrevBus
  THEN << Emit(sockets, "bus-status-changed", [isBus |-> FALSE]) >>
  ELSE << >>

PrevBusNotice ==
  IF HasPrevBus
  THEN << Emit({busUser.id} \cap sockets, "bus-status-changed", [isBus |-> FALSE]) >>
  ELSE << >>

\* app.js:59-60  the promotion notice to the requester and the io.emit of the
\* new designation.
NewBusEmitsToOthers(s, copy) ==
  << Emit({s}, "bus-status-changed", [isBus |-> TRUE]),
     Emit(sockets \ {s}, "bus-user-changed", [busUserId |-> s, busUser |-> copy]) >>

NewBusEmits(s, copy) ==
  << Emit({s}, "bus-status-changed", [isBus |-> TRUE]),
     Emit(sockets, "bus-user-changed", [busUserId |-> s, busUser |-> copy]) >>

\* The body of socket.on('set-as-bus')
SetAsBusHandler(s) ==
  /\ LET cu1 == DemotePrevBus(connectedUsers)
     IN IF s \in DOMAIN cu1
        THEN LET cu2 == [cu1 EXCEPT ![s].isBus = TRUE]
                 copy == cu2[s] @@ [id |-> s]
             IN /\ connectedUsers' = cu2
                /\ busUser' = copy
                /\ out' = PrevBusNotice \o NewBusEmits(s, copy)
        ELSE /\ connectedUsers' = cu1
             /\ busUser' = busUser
             /\ out' = PrevBusNotice
  /\ last' = [op |-> "set-as-bus", id |-> s]
  /\ scen' = Follow(last')
  /\ UNCHANGED <<sockets, nextId>>
  /\ UNCHANGED pageVars

\* socket.on('set-as-bus') of a connected socket
SetAsBus(s) ==
  /\ s \in sockets
  /\ SetAsBusHandler(s)

\* app.js:65  if (busUser && busUser.id === socket.id)
RemoveBusGuardAnyBus(s) == busUser # null

RemoveBusGuard(s) == busUser # null /\ busUser.id = s

\* app.js:72-73  the 'no bus' io.emit, then the notice to the requester.
RemoveBusEmitsNoNotice(s) ==
  << Emit(sockets, "bus-user-changed", [busUserId |-> NoId, busUser |-> null]) >>

RemoveBusEmits(s) ==
  << Emit(sockets, "bus-user-changed", [busUserId |-> NoId, busUser |-> null]),
     Emit({s}, "bus-status-changed", [isBus |-> FALSE]) >>

\* app.js:66-70  if (user) { user.isBus = false; ... }
ClearOwnFlagSkip(m, s) == m

ClearOwnFlag(m, s) ==
  IF s \in DOMAIN m THEN [m EXCEPT ![s].isBus = FALSE] ELSE m

\* socket.on('remove-bus')
RemoveBus(s) ==
  /\ s \in sockets
  /\ IF RemoveBusGuard(s)
     THEN /\ connectedUsers' = ClearOwnFlag(connectedUsers, s)
          /\ busUser' = null
          /\ out' = RemoveBusEmits(s)
     ELSE /\ UNCHANGED <<connectedUsers, busUser>>
          /\ out' = << >>
  /\ last' = [op |-> "remove-bus", id |-> s]
  /\ scen' = Follow(last')
  /\ UNCHANGED <<sockets, nextId>>
  /\ UNCHANGED pageVars

\* app.js:79  if (busUser && busUser.id === socket.id)
DisconnectOfBus(s) == busUser # null /\ busUser.id = s

\* app.js:80  busUser = null
ReleaseKeep(s) == busUser

Release(s) == IF DisconnectOfBus(s) THEN null ELSE busUser

\* app.js:81  io.emit('bus-user-changed', {busUserId: null, busUser: null}),
\* delivered to the sockets in rest.
ReleaseEmitsNone(s, rest) == << >>

ReleaseEmits(s, rest) ==
  IF DisconnectOfBus(s)
  THEN << Emit(rest, "bus-user-changed", [busUserId |-> NoId, busUser |-> null]) >>
  ELSE << >>

\* app.js:83  connectedUsers.delete(socket.id)
UnregisterSkip(m, s) == m

Unregister(m, s) == [i \in DOMAIN m \ {s} |-> m[i]]

\* app.js:79-84  the emits of the disconnect handler in program order: the
\* 'no bus' announcement if the bus left, then 'user-disconnected'.
DisconnectEmitsNoticeFirst(s, rest) ==
  << Emit(rest, "user-disconnected", s) >> \o ReleaseEmits(s, rest)

DisconnectEmits(s, rest) ==
  ReleaseEmits(s, rest) \o << Emit(rest, "user-disconnected", s) >>

\* socket.on('disconnect'): the socket has already left the server's socket
\* set when the handler runs, so io.emit reaches the remaining sockets only.
Disconnect(s) ==
  /\ s \in sockets
  /\ sockets' = sockets \ {s}
  /\ busUser' = Release(s)
  /\ connectedUsers' = Unregister(connectedUsers, s)
  /\ out' = DisconnectEmits(s, sockets')
  /\ last' = [op |-> "disconnect", id |-> s]
  /\ scen' = Follow(last')
  /\ UNCHANGED nextId
  /\ UNCHANGED pageVars

Next ==
  \/ \E s \in Ids : Connection(s)
  \/ \E s \in Ids, data \in Payloads : SendLocation(s, data)
  \/ \E s \in Ids : SetAsBus(s)
  \/ \E s \in Ids : RemoveBus(s)
  \/ \E s \in Ids : Disconnect(s)

Spec == Init /\ [][Next]_vars

\* The ids of the sockets that connected and have since disconnected.
Departed == { s \in Ids : s < nextId /\ s \notin sockets }

\* The 'send-location' and 'set-as-bus' handlers run for a socket whose
\* registry entry is gone: the case their `if (user)` and `user?.isBus`
\* tests provide for.
LateSendLocation(s, data) ==
  /\ s \in Departed
  /\ SendLocationHandler(s, data)

LateSetAsBus(s) ==
  /\ s \in Departed
  /\ SetAsBusHandler(s)

NextLate ==
  \/ Next
  \/ \E s \in Ids, data \in Payloads : LateSendLocation(s, data)
  \/ \E s \in Ids : LateSetAsBus(s)

SpecLate == Init /\ [][NextLate]_vars

TypeOK ==
  /\ sockets \subseteq Ids
  /\ nextId \in 1..(MaxConn + 1)
  /\ DOMAIN connectedUsers \subseteq Ids

\* ---------------------------------------------------------------------
\* The browser page (src/unnamed/part_000)
\* ---------------------------------------------------------------------

\* The events the page registers a listener for with socket.on.
PageListens ==
  { "connect", "disconnect", "reconnect", "initial-data",
    "nearby-buses-update", "bus-location-update", "new-bus-active",
    "bus-inactive", "role-changed", "error", "connect_error" }

\* currentUserRole after the page is delivered event e: only the
\* 'role-changed' listener assigns it (part_000:482); an event without a
\* listener is ignored.
PageRoleOn(role, e) ==
  IF e.ev \in PageListens /\ e.ev = "role-changed" THEN e.data.role ELSE role

\* currentUserRole of the page of socket c, starting from role, after the
\* emits o have been delivered to it in order.
RECURSIVE PageRoleAfter(_, _, _)
PageRoleAfter(o, c, role) ==
  IF o = << >> THEN role
  ELSE PageRoleAfter(Tail(o), c,
                     IF c \in Head(o).to THEN PageRoleOn(role, Head(o)) ELSE role)

\* role-changed payloads: the role, and whether data.route is present.
RolePayloads ==
  { [role |-> "bus", route |-> TRUE], [role |-> "bus", route |-> FALSE],
    [role |-> "user", route |-> FALSE] }

\* socket.on('initial-data'): startLocationTracking() unless isInitialized;
\* startLocationTracking returns early without navigator.geolocation and
\* otherwise issues getCurrentPosition.
InitialData ==
  /\ IF ~isInitialized
     THEN /\ trackingCalls < MaxTracking
          /\ trackingCalls' = trackingCalls + 1
          /\ pendingPosition' = IF geolocation THEN pendingPosition + 1
                                ELSE pendingPosition
     ELSE UNCHANGED <<trackingCalls, pendingPosition>>
  /\ UNCHANGED <<currentUserRole, currentLocation, userMarker, watchId,
                 isInitialized, geolocation, layers, markersMade, watchesMade>>
  /\ UNCHANGED serverVars

\* The success callback of getCurrentPosition (part_000:265-322).
PositionSuccess(pos) ==
  /\ pendingPosition > 0
  /\ pendingPosition' = pendingPosition - 1
  /\ currentLocation' = pos
  /\ IF currentUserRole = "user"
     THEN /\ markersMade < MaxMarkers
          /\ markersMade' = markersMade + 1
          /\ userMarker' = markersMade'
          /\ layers' = layers \cup {markersMade'}
     ELSE UNCHANGED <<markersMade, userMarker, layers>>
  /\ watchesMade' = watchesMade + 1
  /\ watchId' = watchesMade'
  /\ isInitialized' = TRUE
  /\ UNCHANGED <<currentUserRole, geolocation, trackingCalls>>
  /\ UNCHANGED serverVars

\* The error callback of getCurrentPosition (part_000:323-327).
PositionError ==
  /\ pendingPosition > 0
  /\ pendingPosition' = pendingPosition - 1
  /\ UNCHANGED <<currentUserRole, currentLocation, userMarker, watchId,
                 isInitialized, geolocation, layers, markersMade, watchesMade,
                 trackingCalls>>
  /\ UNCHANGED serverVars

\* The success callback of watchPosition (part_000:280-294): it moves the
\* marker, which stays the same marker, and emits 'location-update'.
WatchPosition(pos) ==
  /\ watchesMade > 0
  /\ currentLocation' = pos
  /\ UNCHANGED <<currentUserRole, userMarker, watchId, isInitialized,
                 geolocation, pendingPosition, layers, markersMade,
                 watchesMade, trackingCalls>>
  /\ UNCHANGED serverVars

\* socket.on('role-changed') (part_000:480-552).  In the 'bus' branch
\* data.route.name is read first: without data.route the handler throws
\* into its catch before it removes the marker.
RoleChanged(data) ==
  /\ currentUserRole' = data.role
  /\ IF data.role = "bus"
     THEN /\ IF data.route /\ userMarker # NoMarker /\ userMarker \in layers
             THEN /\ layers' = layers \ {userMarker}
                  /\ userMarker' = NoMarker
             ELSE UNCHANGED <<layers, userMarker>>
          /\ UNCHANGED markersMade
     ELSE IF currentLocation # null
          THEN /\ markersMade < MaxMarkers
               /\ markersMade' = markersMade + 1
               /\ userMarker' = markersMade'
               /\ layers' = layers \cup {markersMade'}
          ELSE UNCHANGED <<layers, userMarker, markersMade>>
  /\ UNCHANGED <<currentLocation, watchId, isInitialized, geolocation,
                 pendingPosition, watchesMade, trackingCalls>>
  /\ UNCHANGED serverVars

NextPage ==
  \/ InitialData
  \/ \E pos \in Positions : PositionSuccess(pos)
  \/ PositionError
  \/ \E pos \in Positions : WatchPosition(pos)
  \/ \E data \in RolePayloads : RoleChanged(data)

SpecPage == Init /\ [][NextPage]_vars

\* ---------------------------------------------------------------------
\* Vocabulary of the properties
\* ---------------------------------------------------------------------

Registered == DOMAIN connectedUsers

Buses == { i \in Registered : connectedUsers[i].isBus }

\* The handler that ran last sent socket c a demotion notice.
DemotionNoticeTo(o, c) ==
  \E k \in 1..Len(o) :
    /\ o[k].ev = "bus-status-changed"
    /\ o[k].data.isBus = FALSE
    /\ c \in o[k].to

\* The handler that ran last announced bus id b (NoId: no bus) to exactly
\* the sockets in cs.
AnnouncedTo(o, b, cs) ==
  \E k \in 1..Len(o) :
    /\ o[k].ev = "bus-user-changed"
    /\ o[k].data.busUserId = b
    /\ o[k].to = cs

\* C1: whatever events were handled, at most one registered connection has
\* isBus = true.
AtMostOneBus == Cardinality(Buses) <= 1

AtMostOneBusWitness ==
  /\ last.op = "set-as-bus"
  /\ Cardinality(Registered) >= 2
  /\ busUser # null
  /\ DemotionNoticeTo(out, CHOOSE c \in Registered : c # last.id)
  /\ Cardinality(Buses) = 1

PromotionDisplaces ==
  [][ \A a, b \in Ids :
        ( /\ a # b
          /\ busUser # null
          /\ busUser.id = a
          /\ a \in Registered
          /\ b \in Registered
          /\ SetAsBus(b) )
        => /\ connectedUsers'[a].isBus = FALSE
           /\ DemotionNoticeTo(out', a)
           /\ connectedUsers'[b].isBus = TRUE
           /\ busUser' # null
           /\ busUser'.id = b
           /\ AnnouncedTo(out', b, sockets')
           /\ {a, b} \cup Registered' \subseteq sockets' ]_vars

PromotionDisplacesWitness ==
  /\ last.op = "set-as-bus"
  /\ Len(out) = 3
  /\ out[1].to # {last.id}
  /\ busUser # null
  /\ busUser.id = last.id
  /\ Cardinality(sockets) >= 3

\* C4: when the designated bus disconnects, afterwards busUser is null, no
\* registered connection is a bus, and the 'no bus' announcement went to
\* every remaining client; busUser goes from null to set only by a
\* set-as-bus request.
DisconnectClearsBus ==
  [][ /\ \A s \in Ids :
           (busUser # null /\ busUser.id = s /\ Disconnect(s))
           => /\ busUser' = null
              /\ Buses' = {}
              /\ AnnouncedTo(out', NoId, sockets \ {s})
      /\ (busUser = null /\ busUser' # null) => \E s \in Ids : SetAsBus(s) ]_vars

DisconnectClearsBusWitness ==
  /\ last.op = "disconnect"
  /\ busUser = null
  /\ sockets # {}
  /\ AnnouncedTo(out, NoId, sockets)

\* C5: the receive-location event of a report is delivered to exactly the
\* connected clients other than the reporting one.
NoSelfEcho ==
  last.op = "send-location" =>
    \A k \in 1..Len(out) :
      out[k].ev = "receive-location" => out[k].to = sockets \ {last.id}

\* C6: the users-list sent to a connecting client lists exactly the
\* registered connections, each with its current role and location, and its
\* bus id is that of the designated bus (none if there is none).
SnapshotComplete ==
  last.op = "connection" =>
    /\ Len(out) = 1
    /\ out[1].ev = "users-list"
    /\ out[1].to = {last.id}
    /\ LET users == out[1].data.users
           cur == out[1].data.currentBus
       IN /\ Len(users) = Cardinality(Registered)
          /\ { users[k] : k \in 1..Len(users) } =
               { connectedUsers[i] : i \in Registered }
          /\ IF busUser = null THEN cur = null
             ELSE cur # null /\ cur.id = busUser.id

SnapshotCompleteWitness ==
  /\ last.op = "connection"
  /\ busUser # null
  /\ Cardinality(Registered) >= 2
  /\ \E i \in Registered : connectedUsers[i].location # null
  /\ Len(out[1].data.users) >= 2

\* C7: remove-bus from a connection that is not the designated bus changes
\* no role, location, designation or registry membership and emits nothing.
DemoteOfNonBusIsNoOp ==
  [][ \A s \in Ids :
        (~(busUser # null /\ busUser.id = s) /\ RemoveBus(s))
        => /\ connectedUsers' = connectedUsers
           /\ busUser' = busUser
           /\ sockets' = sockets
           /\ out' = << >> ]_vars

DemoteOfNonBusIsNoOpWitness ==
  /\ last.op = "remove-bus"
  /\ out = << >>
  /\ busUser # null
  /\ busUser.id # last.id

\* C8: in the scenario connect 1, 2, 3; set-as-bus 1; set-as-bus 2;
\* disconnect 2: after 2's request 1 was sent a demotion notice and all
\* three the announcement of 2; after 2's disconnect 1 and 3 were sent
\* user-disconnected(2) and the 'no bus' announcement, busUser is null and 1
\* is still a rider.
ThreeClientScenario ==
  /\ (scen = 5 /\ last = Scenario[5]) =>
        /\ DemotionNoticeTo(out, 1)
        /\ AnnouncedTo(out, 2, {1, 2, 3})
  /\ (scen = 6 /\ last = Scenario[6]) =>
        /\ \E k \in 1..Len(out) :
             out[k] = Emit({1, 3}, "user-disconnected", 2)
        /\ AnnouncedTo(out, NoId, {1, 3})
  /\ scen = 6 =>
        /\ busUser = null
        /\ connectedUsers[1].isBus = FALSE

ThreeClientScenarioWitness ==
  /\ scen = 6
  /\ last = Scenario[6]
  /\ Registered = {1, 3}

\* C9: remove-bus from the designated bus clears busUser, makes that
\* connection a rider, sends it a demotion notice and announces 'no bus' to
\* every connected client.
DemoteOfBus ==
  [][ \A s \in Ids :
        (busUser # null /\ busUser.id = s /\ RemoveBus(s))
        => /\ busUser' = null
           /\ s \in Registered'
           /\ connectedUsers'[s].isBus = FALSE
           /\ DemotionNoticeTo(out', s)
           /\ AnnouncedTo(out', NoId, sockets')
           /\ Registered' \subseteq sockets' ]_vars

DemoteOfBusWitness ==
  /\ last.op = "remove-bus"
  /\ Len(out) = 2
  /\ busUser = null
  /\ Cardinality(sockets) >= 2
  /\ Buses = {}

\* C10: set-as-bus from the connection that already is the bus leaves roles
\* and the designation as they were, re-sends the announcement to all
\* connections and sends no demotion notice to anyone.
RePromotionIdempotent ==
  [][ \A s \in Ids :
        (busUser # null /\ busUser.id = s /\ SetAsBus(s))
        => /\ \A i \in Registered : connectedUsers'[i].isBus = connectedUsers[i].isBus
           /\ busUser' # null
           /\ busUser'.id = s
           /\ AnnouncedTo(out', s, sockets')
           /\ \A c \in Ids : ~DemotionNoticeTo(out', c) ]_vars

\* A 'send-location' payload that carries both coordinates.
WellFormed(data) == {"latitude", "longitude"} \subseteq DOMAIN data

\* The receive-location events among the emits o.
LocationEvents(o) == { k \in 1..Len(o) : o[k].ev = "receive-location" }

\* C11: a location report lacking a coordinate leaves the sender's stored
\* location as it was and produces no receive-location event.
MalformedReportDropped ==
  [][ \A s \in Ids, data \in Payloads :
        (~WellFormed(data) /\ s \in Registered /\ SendLocation(s, data))
        => /\ connectedUsers'[s].location = connectedUsers[s].location
           /\ LocationEvents(out') = {} ]_vars

\* C12: a location report or a promotion request handled for a connection
\* that is not in the registry changes no state and emits nothing.
UnknownConnectionDropped ==
  [][ \A s \in Ids :
        ( /\ s \notin Registered
          /\ \/ \E data \in Payloads : SendLocationHandler(s, data)
             \/ SetAsBusHandler(s) )
        => /\ connectedUsers' = connectedUsers
           /\ busUser' = busUser
           /\ sockets' = sockets
           /\ out' = << >> ]_vars

DisconnectOrdering ==
  [][ \A s \in Ids :
        Disconnect(s)
        => /\ s \notin Registered'
           /\ Len(out') >= 1
           /\ out'[Len(out')] = Emit(sockets \ {s}, "user-disconnected", s)
           /\ IF busUser # null /\ busUser.id = s
              THEN /\ Len(out') = 2
                   /\ out'[1] = Emit(sockets \ {s}, "bus-user-changed",
                                     [busUserId |-> NoId, busUser |-> null])
                   /\ busUser' = null
              ELSE Len(out') = 1 ]_vars

DisconnectOrderingWitness ==
  /\ last.op = "disconnect"
  /\ Len(out) = 2
  /\ out[1].ev = "bus-user-changed"
  /\ out[2].ev = "user-disconnected"
  /\ Cardinality(out[2].to) >= 2

\* C15: a connecting client is registered as a rider without location, and
\* connecting changes no existing entry and not the designation.
ConnectRegistersRider ==
  [][ \A s \in Ids :
        Connection(s)
        => /\ s \notin Registered
           /\ connectedUsers'[s] = [id |-> s, isBus |-> FALSE, location |-> null]
           /\ \A i \in Registered : connectedUsers'[i] = connectedUsers[i]
           /\ busUser' = busUser ]_vars

ConnectRegistersRiderWitness ==
  /\ last.op = "connection"
  /\ busUser # null
  /\ busUser.id # last.id
  /\ connectedUsers[last.id].isBus = FALSE
  /\ connectedUsers[busUser.id].location # null

\* C16: when a promotion displaces the bus, no connection other than the
\* displaced one is sent a demotion notice.
DemotionNoticeOnlyToDisplaced ==
  [][ \A a, b \in Ids :
        ( /\ a # b
          /\ busUser # null
          /\ busUser.id = a
          /\ SetAsBus(b) )
        => /\ DemotionNoticeTo(out', a)
           /\ \A c \in Ids \ {a} : ~DemotionNoticeTo(out', c) ]_vars

DemotionNoticeOnlyToDisplacedWitness ==
  /\ last.op = "set-as-bus"
  /\ Cardinality(sockets) >= 3
  /\ \E c \in sockets \ {last.id} :
       out[1] = Emit({c}, "bus-status-changed", [isBus |-> FALSE])

\* C17: the bus record in a users-list or in a bus announcement has the
\* location and role of the designated connection's registry entry.
BusRecordIsLive ==
  \A k \in 1..Len(out) :
    LET rec == IF out[k].ev = "users-list" THEN out[k].data.currentBus
               ELSE IF out[k].ev = "bus-user-changed" THEN out[k].data.busUser
               ELSE null
    IN rec # null =>
         /\ rec.id \in Registered
         /\ rec.location = connectedUsers[rec.id].location
         /\ rec.isBus = connectedUsers[rec.id].isBus

\* C18: a location report changes nothing but the sender's stored location.
ReportChangesOnlyLocation ==
  [][ \A s \in Ids, data \in Payloads :
        SendLocation(s, data)
        => /\ Registered' = Registered
           /\ sockets' = sockets
           /\ busUser' = busUser
           /\ \A i \in Registered :
                /\ connectedUsers'[i].isBus = connectedUsers[i].isBus
                /\ connectedUsers'[i].id = connectedUsers[i].id
                /\ i # s => connectedUsers'[i].location = connectedUsers[i].location ]_vars

ReportChangesOnlyLocationWitness ==
  /\ last.op = "send-location"
  /\ busUser # null
  /\ busUser.id = last.id
  /\ connectedUsers[last.id].isBus
  /\ \E i \in Registered \ {last.id} : connectedUsers[i].location # null

RegistryTracksConnections ==
  /\ [](Registered = sockets)
  /\ [][ \/ \E s \in Ids : Connection(s) /\ s \notin Registered
                           /\ Registered' = Registered \cup {s}
         \/ \E s \in Ids : Disconnect(s) /\ s \in Registered
                           /\ Registered' = Registered \ {s}
         \/ Registered' = Registered ]_vars

RegistryTracksConnectionsWitness ==
  /\ last.op = "disconnect"
  /\ Registered = sockets
  /\ sockets # {}
  /\ nextId > MaxConn

\* C21: the notices the server sends a connection it promotes (demotes)
\* include an event the page listens for, and after the page has handled
\* them its currentUserRole is 'bus' ('user').
RolePropagates ==
  [][ \A s \in Ids :
        /\ (s \in Registered /\ SetAsBus(s))
           => /\ \E k \in 1..Len(out') :
                   s \in out'[k].to /\ out'[k].ev \in PageListens
              /\ PageRoleAfter(out', s, "user") = "bus"
        /\ (busUser # null /\ busUser.id = s /\ RemoveBus(s))
           => /\ \E k \in 1..Len(out') :
                   s \in out'[k].to /\ out'[k].ev \in PageListens
              /\ PageRoleAfter(out', s, "bus") = "user" ]_vars

\* C22: whatever the order of 'initial-data' events and geolocation
\* callbacks, startLocationTracking is called at most once and at most one
\* position watch is created.
TrackingStartsOnce ==
  /\ trackingCalls <= 1
  /\ watchesMade <= 1

\* C23: at most one own-location marker is on the map, and none while the
\* page's role is 'bus'.
OwnMarkerSingle ==
  /\ Cardinality(layers) <= 1
  /\ currentUserRole = "bus" => layers = {}

====
